---- MODULE Spec2Model ----
(***************************************************************************)
(* HybridPGMLIPP (src/competitors/hybrid_pgm_lipp.h): a two-tier index.    *)
(* dpgm_ (DPI) absorbs inserts, lipp_ (LIT) serves hot keys; a detached     *)
(* migration thread bulk-loads queued keys into lipp_, and a background     *)
(* controller thread adjusts the threshold and rebuilds hot_keys_.          *)
(*                                                                         *)
(* Threads: one foreground thread driving the public API (applicable()     *)
(* rejects multithread), the controller (background_worker_), and the      *)
(* detached migration threads started by StartAsyncMigration.              *)
(*                                                                         *)
(* Time.  The code stores steady_clock timestamps and only ever compares   *)
(* differences now - t against fixed windows.  The model stores the        *)
(* difference itself (in ms) and saturates it just above the largest       *)
(* window it is compared with, so that time can pass without bound.  A     *)
(* zero timestamp (a fresh KeyStats) is the clock's epoch, assumed to be   *)
(* further back than every window.                                         *)
(*                                                                         *)
(* DynamicPGM and Lipp (dynamic_pgm_index.h, lipp.h) are the external      *)
(* ordered maps of the specification: each adapter call is atomic.         *)
(***************************************************************************)
EXTENDS Integers, Sequences, FiniteSets, TLC

\* ---------------------------------------------------------------- bounds
MaxKey == 2
MaxVal == 2
MaxOps == 4
NWorkers == 2
DeepOps == 5
ThetaOps == 4

Keys == 1..MaxKey
Values == 1..MaxVal
Workers == 1..NWorkers

\* ------------------------------------------------------ program constants
NOT_FOUND == -1
SampleCap == 100000
ConsecutiveWindow == 50
HotConsecutive == 2
HotTotal == 3
Cooldown == 1000
TriggerQueue == 200
TriggerConsecutive == 3
InsertsPerCheck == 50
StatsTtl == 250
SleepMs == 100
MinBatchHeavy == 100
MinBatchLight == 200
MaxWaitHeavy == 50
MaxWaitLight == 150

\* Elapsed times the clock may advance by in one step (ms).
Durations == {100, 300}

\* Saturation of a stored difference now - t compared with window w.
Sat(d, w) == IF d > w THEN w + 1 ELSE d

VARIABLES
    dpgm,                   \* dpgm_: key -> value or NOT_FOUND
    lipp,                   \* lipp_: key -> value or NOT_FOUND
    key_stats,              \* key_stats_: key -> KeyStats (present = has an entry)
    migration_queue,        \* migration_queue_
    hot_keys,               \* hot_keys_
    migration_in_progress,  \* migration_in_progress_
    mutex,                  \* mutex_: "free" or its holder
    stop_worker,            \* stop_worker_
    adaptive_threshold,     \* adaptive_threshold_
    inserts,                \* workload_stats_.inserts
    lookups,                \* workload_stats_.lookups
    since_flush,            \* now - last_flush_time_
    fgpc,                   \* foreground thread: position
    fgop,                   \* foreground thread: call in progress
    fgkey,                  \* foreground thread: key of the call in progress
    fgval,                  \* foreground thread: dpgm_result / value of the call in progress
    cpc,                    \* controller thread: position
    sleep_left,             \* controller thread: remaining sleep
    wpc,                    \* migration threads: position
    batch,                  \* migration threads: keys_to_migrate
    last,                   \* result of the last completed foreground call
    logical,                \* ghost: key -> value most recently built or inserted
    migration_threshold,    \* migration_threshold_, in millionths
    budget,                 \* ghost: foreground calls the driver may still issue
    twin,                   \* ghost: the step marked for replay under another threshold
    current_min             \* full-flush variant: current_min of ExtractDPGMData

vars == <<dpgm, lipp, key_stats, migration_queue, hot_keys, migration_in_progress,
          mutex, stop_worker, adaptive_threshold, inserts, lookups, since_flush,
          fgpc, fgop, fgkey, fgval, cpc, sleep_left, wpc, batch, last, logical, migration_threshold, budget, twin, current_min>>

dataVars == <<dpgm, lipp, logical>>
thetaVars == <<migration_threshold, twin, current_min>>
ctlVars == <<cpc, sleep_left, stop_worker, adaptive_threshold>>
workerVars == <<wpc, batch>>
fgVars == <<fgpc, fgop, fgkey, fgval>>
statVars == <<inserts, lookups>>

\* ------------------------------------------------------------- sequences
RECURSIVE SeqSum(_)
SeqSum(s) == IF s = <<>> THEN 0 ELSE Head(s) + SeqSum(Tail(s))

RECURSIVE SetToSortedSeq(_)
SetToSortedSeq(S) ==
    IF S = {} THEN <<>>
    ELSE LET m == CHOOSE x \in S : \A y \in S : x <= y
         IN <<m>> \o SetToSortedSeq(S \ {m})

SeqKeys(s) == {s[i].key : i \in 1..Len(s)}
SeqToSet(s) == {s[i] : i \in 1..Len(s)}

\* std::sort with the comparator a.key < b.key.
SortByKey(s) == SortSeq(s, LAMBDA a, b : a.key < b.key)

\* ---------------------------------------------------- adapters (ordered maps)
EmptyMap == [k \in Keys |-> NOT_FOUND]

\* The keys of the run: the domain the maps were constructed over.
Universe == DOMAIN dpgm

MapOf(data) ==
    [k \in Universe |->
        IF k \in SeqKeys(data)
        THEN (CHOOSE kv \in SeqToSet(data) : kv.key = k).value
        ELSE NOT_FOUND]

\* DynamicPGM::Build: the index holds exactly the given entries.
DpgmBuild(data) == MapOf(data)
\* Lipp::Build: a bulk load replaces the contents of the tree.
LippBuild(old, data) == MapOf(data)
\* EqualityLookup of either adapter.
AdapterLookup(m, k) == m[k]
\* Insert of either adapter: the key maps to the value.
AdapterInsert(m, k, v) == [m EXCEPT ![k] = v]
\* RangeQuery of either adapter: the sum of the values of the keys in [lo, hi].
AdapterRange(m, lo, hi) ==
    SeqSum([i \in 1..Len(SetToSortedSeq({k \in Keys : lo <= k /\ k <= hi /\ m[k] # NOT_FOUND})) |->
              m[SetToSortedSeq({k \in Keys : lo <= k /\ k <= hi /\ m[k] # NOT_FOUND})[i]]])

\* ------------------------------------------------------------- KeyStats
\* struct KeyStats, default-constructed; the zero timestamps are the epoch.
NewStats ==
    [present |-> TRUE, access_count |-> 0, since_access |-> StatsTtl + 1,
     is_hot |-> FALSE, consecutive_accesses |-> 0, total_accesses |-> 0,
     since_migration |-> Cooldown + 1]
NoStats == [NewStats EXCEPT !.present = FALSE]

\* ------------------------------------------------------------------ Init
\* The state after the constructor (lines 26-49): both indexes empty, the
\* controller thread started when params[1] # 0.
\* Lines 27, 32-33: params[0] / 100.0, in millionths.
ThresholdScale == 1000000
InitialThreshold(p) == (p * ThresholdScale) \div 100
\* params[0] of the default benchmark configuration.
ThresholdParams == {5}

NoCall == [op |-> "none", key |-> 0, hi |-> 0, val |-> 0]

\* No step is marked: the ghost of every run that is not being compared with
\* its twin.
NoTwin == [phase |-> "run", theta |-> 0, pre |-> <<>>, post |-> <<>>]

ConstructedWith(params) ==
    /\ dpgm = EmptyMap
    /\ lipp = EmptyMap
    /\ key_stats = [k \in Keys |-> NoStats]
    /\ migration_queue = <<>>
    /\ hot_keys = {}
    /\ migration_in_progress = FALSE
    /\ mutex = "free"
    /\ stop_worker = FALSE
    /\ adaptive_threshold \in BOOLEAN
    /\ inserts = 0
    /\ lookups = 0
    /\ since_flush = 0
    /\ fgpc = "new"
    /\ fgop = "none"
    /\ fgkey = 0
    /\ fgval = 0
    /\ cpc = IF adaptive_threshold THEN "c_loop" ELSE "c_none"
    /\ sleep_left = 0
    /\ wpc = [w \in Workers |-> "none"]
    /\ batch = [w \in Workers |-> <<>>]
    /\ last = NoCall
    /\ logical = EmptyMap
    /\ migration_threshold \in {InitialThreshold(p) : p \in params}
    /\ twin = NoTwin
    /\ current_min = 0

Constructed == ConstructedWith(ThresholdParams)

\* The driver issues at most MaxOps calls, with any inputs.
Init == Constructed /\ budget = MaxOps

\* The driver issues at most DeepOps calls, from the narrow inputs below.
InitDeep == Constructed /\ budget = DeepOps

\* ----------------------------------------------------------------- Build
\* Inputs of Build: the entries (k, k) of a set of keys, in key order.
BuildInputs ==
    {[i \in 1..Len(SetToSortedSeq(S)) |->
         [key |-> SetToSortedSeq(S)[i], value |-> SetToSortedSeq(S)[i]]] : S \in SUBSET Keys}

Min(a, b) == IF a <= b THEN a ELSE b
Max(a, b) == IF a >= b THEN a ELSE b

\* Lines 84-97: the sample of the middle of the data, sorted by key.
BuildSample(data) ==
    LET n == Len(data)
        sample_size == Min(n, SampleCap)
        start_idx == (n \div 2) - (sample_size \div 2)
    IN SortByKey([i \in 1..sample_size |-> data[start_idx + i]])

\* Build (lines 78-104).
Build(data) ==
    /\ fgpc = "new"
    /\ dpgm' = DpgmBuild(data)
    /\ lipp' = IF Len(data) > 0 THEN LippBuild(lipp, BuildSample(data)) ELSE lipp
    /\ logical' = MapOf(data)
    /\ fgpc' = "idle"
    /\ last' = [op |-> "build", key |-> 0, hi |-> 0, val |-> 0]
    /\ UNCHANGED <<key_stats, migration_queue, hot_keys, migration_in_progress, mutex,
                   since_flush, fgop, fgkey, fgval, budget>>
    /\ UNCHANGED <<thetaVars, ctlVars, workerVars, statVars>>

\* -------------------------------------------------------- EqualityLookup
\* A lookup that reports a miss in both indexes with another sentinel.
LookupResultOverflow(lipp_result, dpgm_result) ==
    IF lipp_result # NOT_FOUND THEN lipp_result
    ELSE IF dpgm_result # NOT_FOUND THEN dpgm_result ELSE NOT_FOUND - 1

\* A lookup that consults dpgm_ first.
LookupResultDpgmFirst(lipp_result, dpgm_result) ==
    IF dpgm_result # NOT_FOUND THEN dpgm_result ELSE lipp_result

\* Lines 108-116, 161: the value returned from the two adapter results.
LookupResult(lipp_result, dpgm_result) ==
    IF lipp_result # NOT_FOUND THEN lipp_result ELSE dpgm_result

LookupCall(k, v) == [op |-> "lookup", key |-> k, hi |-> k, val |-> v]
InsertCall(k, v) == [op |-> "insert", key |-> k, hi |-> k, val |-> v]

\* The record the call in progress returns with.
Return ==
    IF fgop = "lookup" THEN LookupCall(fgkey, fgval) ELSE InsertCall(fgkey, fgval)

\* The call in progress returns to the caller.
Returns ==
    /\ fgpc' = "idle"
    /\ fgop' = "none"
    /\ fgkey' = 0
    /\ fgval' = 0
    /\ last' = Return

\* Lines 108-119: both adapter reads; a hit in dpgm_ goes on to the mutex.
EqualityLookup(k) ==
    /\ fgpc = "idle"
    /\ budget > 0
    /\ budget' = budget - 1
    /\ lookups' = lookups + 1
    /\ LET lipp_result == AdapterLookup(lipp, k)
           dpgm_result == AdapterLookup(dpgm, k)
       IN IF lipp_result = NOT_FOUND /\ dpgm_result # NOT_FOUND
          THEN /\ fgpc' = "lk_lock"
               /\ fgop' = "lookup"
               /\ fgkey' = k
               /\ fgval' = LookupResult(lipp_result, dpgm_result)
               /\ last' = NoCall
          ELSE /\ last' = LookupCall(k, LookupResult(lipp_result, dpgm_result))
               /\ UNCHANGED fgVars
    /\ UNCHANGED <<key_stats, migration_queue, hot_keys, migration_in_progress, mutex,
                   since_flush, inserts>>
    /\ UNCHANGED <<dataVars, thetaVars, ctlVars, workerVars>>

\* Lines 121-134: the access recorded in the key's statistics.
RecordAccess(stats) ==
    [stats EXCEPT
        !.consecutive_accesses =
            IF stats.since_access < ConsecutiveWindow THEN stats.consecutive_accesses + 1 ELSE 1,
        !.access_count = stats.access_count + 1,
        !.total_accesses = stats.total_accesses + 1,
        !.since_access = 0]

\* A classification that does not look at is_hot.
BecomesHotAgain(stats) ==
    \/ stats.consecutive_accesses >= HotConsecutive
    \/ stats.total_accesses >= HotTotal /\ stats.since_migration > Cooldown

\* Lines 137-139: the key is newly classified as hot.
BecomesHot(stats) ==
    /\ ~stats.is_hot
    /\ \/ stats.consecutive_accesses >= HotConsecutive
       \/ stats.total_accesses >= HotTotal /\ stats.since_migration > Cooldown

\* An enqueue without the search of the queue.
EnqueueAlways(queue, k) == Append(queue, k)

\* Lines 148-150: enqueue unless already queued.
Enqueue(queue, k) ==
    IF k \in SeqToSet(queue) THEN queue ELSE Append(queue, k)

\* Lines 153-154: the lookup asks for a migration run.
\* A trigger whose batch target grows with the threshold: one queued key per
\* percent of theta.
LookupTriggersScaled(queue, stats) ==
    \/ Len(queue) >= (migration_threshold * 100) \div ThresholdScale
    \/ stats.consecutive_accesses >= TriggerConsecutive

LookupTriggers(queue, stats) ==
    /\ Len(queue) >= TriggerQueue \/ stats.consecutive_accesses >= TriggerConsecutive
    /\ ~migration_in_progress

\* Lines 119-159: the critical section of a lookup served by dpgm_.
LookupLocked ==
    /\ fgpc = "lk_lock"
    /\ mutex = "free"
    /\ LET old == IF key_stats[fgkey].present THEN key_stats[fgkey] ELSE NewStats
           acc == RecordAccess(old)
           hot == BecomesHot(acc)
           new == IF hot THEN [acc EXCEPT !.is_hot = TRUE, !.since_migration = 0] ELSE acc
           queue == IF hot THEN Enqueue(migration_queue, fgkey) ELSE migration_queue
       IN /\ key_stats' = [key_stats EXCEPT ![fgkey] = new]
          /\ migration_queue' = queue
          /\ IF hot /\ LookupTriggers(queue, new)
             THEN /\ mutex' = "fg"
                  /\ fgpc' = "sam_load"
                  /\ UNCHANGED <<fgop, fgkey, fgval, last>>
             ELSE /\ mutex' = "free"
                  /\ Returns
    /\ UNCHANGED <<hot_keys, migration_in_progress, since_flush, budget>>
    /\ UNCHANGED <<dataVars, thetaVars, ctlVars, workerVars, statVars>>

\* ------------------------------------------------------------ RangeQuery
\* Lines 164-169: the two adapter sums combined.
HybridRange(lipp_result, dpgm_result) == lipp_result + dpgm_result

RangeQuery(lo, hi) ==
    /\ fgpc = "idle"
    /\ budget > 0
    /\ budget' = budget - 1
    /\ last' = [op |-> "range", key |-> lo, hi |-> hi,
                val |-> HybridRange(AdapterRange(lipp, lo, hi), AdapterRange(dpgm, lo, hi))]
    /\ UNCHANGED <<key_stats, migration_queue, hot_keys, migration_in_progress, mutex,
                   since_flush>>
    /\ UNCHANGED <<dataVars, thetaVars, ctlVars, workerVars, statVars, fgVars>>

\* ---------------------------------------------------------------- Insert
\* Lines 175-176: the insert is routed to lipp_.
InsertsIntoLipp(stats) == stats.present /\ stats.is_hot

\* Lines 173-182: the routing decision under the mutex; a hot key is written
\* to lipp_ and the call returns.
Insert(k, v) ==
    /\ fgpc = "idle"
    /\ budget > 0
    /\ mutex = "free"
    /\ budget' = budget - 1
    /\ IF InsertsIntoLipp(key_stats[k])
       THEN /\ lipp' = AdapterInsert(lipp, k, v)
            /\ logical' = [logical EXCEPT ![k] = v]
            /\ inserts' = inserts + 1
            /\ last' = InsertCall(k, v)
            /\ UNCHANGED fgVars
       ELSE /\ fgpc' = "ins_dpgm"
            /\ fgop' = "insert"
            /\ fgkey' = k
            /\ fgval' = v
            /\ last' = NoCall
            /\ UNCHANGED <<lipp, logical, inserts>>
    /\ UNCHANGED <<dpgm, key_stats, migration_queue, hot_keys, migration_in_progress, mutex,
                   since_flush, lookups>>
    /\ UNCHANGED <<thetaVars, ctlVars, workerVars>>

\* Lines 185-186: the write to dpgm_, outside the mutex.
InsertDpgm ==
    /\ fgpc = "ins_dpgm"
    /\ dpgm' = AdapterInsert(dpgm, fgkey, fgval)
    /\ logical' = [logical EXCEPT ![fgkey] = fgval]
    /\ inserts' = inserts + 1
    /\ fgpc' = "ins_check"
    /\ UNCHANGED <<lipp, key_stats, migration_queue, hot_keys, migration_in_progress, mutex,
                   since_flush, lookups, fgop, fgkey, fgval, last, budget>>
    /\ UNCHANGED <<thetaVars, ctlVars, workerVars>>

\* Line 189: the counter is read again for the periodic check.
InsertCheck ==
    /\ fgpc = "ins_check"
    /\ IF inserts % InsertsPerCheck = 0
       THEN /\ fgpc' = "ins_lock"
            /\ UNCHANGED <<fgop, fgkey, fgval, last>>
       ELSE Returns
    /\ UNCHANGED <<key_stats, migration_queue, hot_keys, migration_in_progress, mutex,
                   since_flush, budget>>
    /\ UNCHANGED <<dataVars, thetaVars, ctlVars, workerVars, statVars>>

\* should_flush (lines 237-252); insert_ratio > 0.7 as 10 * inserts > 7 * total_ops.
should_flush ==
    LET total_ops == inserts + lookups
        heavy == 10 * inserts > 7 * total_ops
        min_batch_size == IF heavy THEN MinBatchHeavy ELSE MinBatchLight
        max_wait_time == IF heavy THEN MaxWaitHeavy ELSE MaxWaitLight
    IN IF total_ops = 0 THEN FALSE
       ELSE Len(migration_queue) >= min_batch_size \/ since_flush > max_wait_time

\* Lines 190-194: the flush check under the mutex.
InsertLocked ==
    /\ fgpc = "ins_lock"
    /\ mutex = "free"
    /\ IF should_flush /\ ~migration_in_progress
       THEN /\ mutex' = "fg"
            /\ fgpc' = "sam_load"
            /\ UNCHANGED <<fgop, fgkey, fgval, last>>
       ELSE /\ mutex' = "free"
            /\ Returns
    /\ UNCHANGED <<key_stats, migration_queue, hot_keys, migration_in_progress,
                   since_flush, budget>>
    /\ UNCHANGED <<dataVars, thetaVars, ctlVars, workerVars, statVars>>

\* --------------------------------------------------- StartAsyncMigration
\* Lines 310-312: the guard of StartAsyncMigration (the caller holds the mutex).
StartLoad ==
    /\ fgpc = "sam_load"
    /\ IF migration_in_progress
       THEN /\ mutex' = "free"
            /\ Returns
       ELSE /\ fgpc' = "sam_store"
            /\ UNCHANGED <<mutex, fgop, fgkey, fgval, last>>
    /\ UNCHANGED <<key_stats, migration_queue, hot_keys, migration_in_progress,
                   since_flush, budget>>
    /\ UNCHANGED <<dataVars, thetaVars, ctlVars, workerVars, statVars>>

\* A start that writes false where line 315 writes true.
StartStoreClearing ==
    /\ fgpc = "sam_store"
    /\ \E w \in Workers : wpc[w] = "none"
    /\ migration_in_progress' = FALSE
    /\ wpc' = [wpc EXCEPT ![CHOOSE w \in Workers : wpc[w] = "none"] = "m_check"]
    /\ mutex' = "free"
    /\ Returns
    /\ UNCHANGED <<key_stats, migration_queue, hot_keys, since_flush, budget, batch>>
    /\ UNCHANGED <<dataVars, thetaVars, ctlVars, statVars>>

\* The slot the new migration thread runs in.
FreeWorker == CHOOSE w \in Workers : wpc[w] = "none" /\ \A u \in Workers : wpc[u] = "none" => w <= u

\* Lines 314-327: the flag is set and the thread detached; when the thread
\* cannot be created the flag is cleared again.  The caller then releases
\* the mutex and returns.
StartStore ==
    /\ fgpc = "sam_store"
    /\ \E w \in Workers : wpc[w] = "none"
    /\ \E created \in BOOLEAN :
         IF created
         THEN /\ migration_in_progress' = TRUE
              /\ wpc' = [wpc EXCEPT ![FreeWorker] = "m_check"]
         ELSE /\ migration_in_progress' = FALSE
              /\ UNCHANGED wpc
    /\ mutex' = "free"
    /\ Returns
    /\ UNCHANGED <<key_stats, migration_queue, hot_keys, since_flush, budget, batch>>
    /\ UNCHANGED <<dataVars, thetaVars, ctlVars, statVars>>

\* -------------------------------------------------------- MigrateHotKeys
\* A snapshot taken before the last enqueue: the newest key of the queue is
\* not in it.
SnapshotStale(queue, index) ==
    LET found == SelectSeq(SubSeq(queue, 1, Len(queue) - 1),
                           LAMBDA k : AdapterLookup(index, k) # NOT_FOUND)
    IN [i \in 1..Len(found) |-> [key |-> found[i], value |-> AdapterLookup(index, found[i])]]

\* Lines 348-359: the queued keys found in dpgm_, with their values.
Snapshot(queue, index) ==
    LET found == SelectSeq(queue, LAMBDA k : AdapterLookup(index, k) # NOT_FOUND)
    IN [i \in 1..Len(found) |-> [key |-> found[i], value |-> AdapterLookup(index, found[i])]]

\* Lines 331-333: the check of the queue, made without the mutex.  When the
\* foreground is about to append under the mutex (line 148) the read races
\* with the write and may see the queue empty or not.
MigrateCheck(w) ==
    /\ wpc[w] = "m_check"
    /\ \E seen_empty \in (IF fgpc = "lk_lock" /\ mutex = "free"
                          THEN BOOLEAN ELSE {migration_queue = <<>>}) :
         wpc' = [wpc EXCEPT ![w] = IF seen_empty THEN "m_clear" ELSE "m_lock1"]
    /\ UNCHANGED <<key_stats, migration_queue, hot_keys, migration_in_progress, mutex,
                   since_flush, last, budget, batch>>
    /\ UNCHANGED <<dataVars, thetaVars, ctlVars, statVars, fgVars>>

\* Line 341: lock_guard.
MigrateLock1(w) ==
    /\ wpc[w] = "m_lock1"
    /\ mutex = "free"
    /\ mutex' = "mw"
    /\ wpc' = [wpc EXCEPT ![w] = "m_drain"]
    /\ UNCHANGED <<key_stats, migration_queue, hot_keys, migration_in_progress,
                   since_flush, last, budget, batch>>
    /\ UNCHANGED <<dataVars, thetaVars, ctlVars, statVars, fgVars>>

\* A drain that moves the keys out of dpgm_ instead of copying them.
MigrateDrainEvicting(w) ==
    /\ wpc[w] = "m_drain"
    /\ LET keys_to_migrate ==
               IF migration_queue = <<>> THEN <<>> ELSE Snapshot(migration_queue, dpgm)
       IN /\ batch' = [batch EXCEPT ![w] = SortByKey(keys_to_migrate)]
          /\ wpc' = [wpc EXCEPT ![w] = IF keys_to_migrate = <<>> THEN "m_clear" ELSE "m_lock2"]
          /\ dpgm' = [k \in Keys |-> IF k \in SeqKeys(keys_to_migrate) THEN NOT_FOUND ELSE dpgm[k]]
    /\ migration_queue' = <<>>
    /\ mutex' = "free"
    /\ UNCHANGED <<key_stats, hot_keys, migration_in_progress, since_flush, last, budget>>
    /\ UNCHANGED <<lipp, logical, thetaVars, ctlVars, statVars, fgVars>>

\* A drain whose lock scope extends over the bulk load: the mutex is still
\* held when the second lock_guard is reached.
MigrateDrainHolding(w) ==
    /\ wpc[w] = "m_drain"
    /\ LET keys_to_migrate ==
               IF migration_queue = <<>> THEN <<>> ELSE Snapshot(migration_queue, dpgm)
       IN /\ batch' = [batch EXCEPT ![w] = SortByKey(keys_to_migrate)]
          /\ wpc' = [wpc EXCEPT ![w] = IF keys_to_migrate = <<>> THEN "m_clear" ELSE "m_lock2"]
          /\ mutex' = IF keys_to_migrate = <<>> THEN "free" ELSE "mw"
    /\ migration_queue' = <<>>
    /\ UNCHANGED <<key_stats, hot_keys, migration_in_progress, since_flush, last, budget>>
    /\ UNCHANGED <<dataVars, thetaVars, ctlVars, statVars, fgVars>>

\* Lines 342-371: the snapshot of the queue, the queue cleared, the mutex
\* released, the batch sorted.
MigrateDrain(w) ==
    /\ wpc[w] = "m_drain"
    /\ LET keys_to_migrate ==
               IF migration_queue = <<>> THEN <<>> ELSE Snapshot(migration_queue, dpgm)
       IN /\ batch' = [batch EXCEPT ![w] = SortByKey(keys_to_migrate)]
          /\ wpc' = [wpc EXCEPT ![w] = IF keys_to_migrate = <<>> THEN "m_clear" ELSE "m_lock2"]
    /\ migration_queue' = <<>>
    /\ mutex' = "free"
    /\ UNCHANGED <<key_stats, hot_keys, migration_in_progress, since_flush, last, budget>>
    /\ UNCHANGED <<dataVars, thetaVars, ctlVars, statVars, fgVars>>

\* Line 375: lock_guard.
MigrateLock2(w) ==
    /\ wpc[w] = "m_lock2"
    /\ mutex = "free"
    /\ mutex' = "mw"
    /\ wpc' = [wpc EXCEPT ![w] = "m_bulk"]
    /\ UNCHANGED <<key_stats, migration_queue, hot_keys, migration_in_progress,
                   since_flush, last, budget, batch>>
    /\ UNCHANGED <<dataVars, thetaVars, ctlVars, statVars, fgVars>>

\* A bulk load that marks the keys hot before the load and leaves them
\* marked when the load throws.
MigrateBulkNoRollback(w) ==
    /\ wpc[w] = "m_bulk"
    /\ \E loaded \in BOOLEAN :
         IF loaded
         THEN /\ lipp' = LippBuild(lipp, batch[w])
              /\ hot_keys' = hot_keys \cup SeqKeys(batch[w])
         ELSE /\ lipp' = lipp
              /\ hot_keys' = hot_keys \cup SeqKeys(batch[w])
    /\ mutex' = "free"
    /\ wpc' = [wpc EXCEPT ![w] = "m_clear"]
    /\ UNCHANGED <<dpgm, logical, key_stats, migration_queue, migration_in_progress,
                   since_flush, last, budget, batch>>
    /\ UNCHANGED <<thetaVars, ctlVars, statVars, fgVars>>

\* Lines 376-386: the bulk load and the keys marked hot; when the bulk load
\* throws, lipp_ is left as it was and the keys are erased from hot_keys_.
MigrateBulk(w) ==
    /\ wpc[w] = "m_bulk"
    /\ \E loaded \in BOOLEAN :
         IF loaded
         THEN /\ lipp' = LippBuild(lipp, batch[w])
              /\ hot_keys' = hot_keys \cup SeqKeys(batch[w])
         ELSE /\ lipp' = lipp
              /\ hot_keys' = hot_keys \ SeqKeys(batch[w])
    /\ mutex' = "free"
    /\ wpc' = [wpc EXCEPT ![w] = "m_clear"]
    /\ UNCHANGED <<dpgm, logical, key_stats, migration_queue, migration_in_progress,
                   since_flush, last, budget, batch>>
    /\ UNCHANGED <<thetaVars, ctlVars, statVars, fgVars>>

\* A thread that clears the flag only after a run that reached the bulk load.
MigrateClearAfterLoad(w) ==
    /\ wpc[w] = "m_clear"
    /\ migration_in_progress' = (IF batch[w] # <<>> THEN FALSE ELSE migration_in_progress)
    /\ wpc' = [wpc EXCEPT ![w] = "none"]
    /\ batch' = [batch EXCEPT ![w] = <<>>]
    /\ UNCHANGED <<key_stats, migration_queue, hot_keys, mutex, since_flush, last, budget>>
    /\ UNCHANGED <<dataVars, thetaVars, ctlVars, statVars, fgVars>>

\* A thread that stamps last_flush_time_ at the end of every run.
MigrateClearStamping(w) ==
    /\ wpc[w] = "m_clear"
    /\ migration_in_progress' = FALSE
    /\ since_flush' = 0
    /\ wpc' = [wpc EXCEPT ![w] = "none"]
    /\ batch' = [batch EXCEPT ![w] = <<>>]
    /\ UNCHANGED <<key_stats, migration_queue, hot_keys, mutex, last, budget>>
    /\ UNCHANGED <<dataVars, thetaVars, ctlVars, statVars, fgVars>>

\* Line 322: the thread clears the flag and ends.
MigrateClear(w) ==
    /\ wpc[w] = "m_clear"
    /\ migration_in_progress' = FALSE
    /\ wpc' = [wpc EXCEPT ![w] = "none"]
    /\ batch' = [batch EXCEPT ![w] = <<>>]
    /\ UNCHANGED <<key_stats, migration_queue, hot_keys, mutex, since_flush, last, budget>>
    /\ UNCHANGED <<dataVars, thetaVars, ctlVars, statVars, fgVars>>

\* ------------------------------------------------------------ controller
\* Lines 281-290: the entries not accessed for more than 250 ms are erased.
AgeOut(stats) ==
    [k \in Keys |->
        IF stats[k].present /\ stats[k].since_access > StatsTtl THEN NoStats ELSE stats[k]]

\* Lines 263-272: the new threshold from the insert ratio (millionths,
\* rounded down).
AdjustThreshold(t, ins, lks) ==
    IF 10 * ins > 7 * (ins + lks)
    THEN Min(ThresholdScale \div 10, (t * 102) \div 100)
    ELSE IF 10 * ins < 3 * (ins + lks)
         THEN Max(ThresholdScale \div 200, (t * 98) \div 100)
         ELSE Max(ThresholdScale \div 100, (t * 99) \div 100)

\* Lines 42-45 and 254-293: once the sleep is over, the loop test, then
\* adjust_migration_threshold up to inserts.store(0) of reset().
CtlAdjust ==
    /\ cpc = "c_loop"
    /\ sleep_left = 0
    /\ IF stop_worker
       THEN /\ cpc' = "c_exited"
            /\ UNCHANGED <<key_stats, inserts, migration_threshold>>
       ELSE IF inserts + lookups = 0
            THEN /\ cpc' = "c_update"
                 /\ UNCHANGED <<key_stats, inserts, migration_threshold>>
            ELSE /\ mutex = "free"
                 /\ migration_threshold' = AdjustThreshold(migration_threshold, inserts, lookups)
                 /\ key_stats' = AgeOut(key_stats)
                 /\ inserts' = 0
                 /\ cpc' = "c_reset"
    /\ UNCHANGED <<migration_queue, hot_keys, migration_in_progress, mutex, since_flush,
                   last, budget, lookups, sleep_left, stop_worker, adaptive_threshold, twin, current_min>>
    /\ UNCHANGED <<dataVars, workerVars, fgVars>>

\* Lines 223-224: the rest of reset().
CtlReset ==
    /\ cpc = "c_reset"
    /\ lookups' = 0
    /\ cpc' = "c_update"
    /\ UNCHANGED <<key_stats, migration_queue, hot_keys, migration_in_progress, mutex,
                   since_flush, last, budget, inserts, sleep_left, stop_worker,
                   adaptive_threshold>>
    /\ UNCHANGED <<dataVars, thetaVars, workerVars, fgVars>>

\* An update that adds the queued keys without clearing the set first.
update_hot_keys_keeping ==
    /\ cpc = "c_update"
    /\ mutex = "free"
    /\ hot_keys' = hot_keys \cup SeqToSet(migration_queue)
    /\ cpc' = "c_loop"
    /\ sleep_left' = SleepMs
    /\ UNCHANGED <<key_stats, migration_queue, migration_in_progress, mutex, since_flush,
                   last, budget, stop_worker, adaptive_threshold>>
    /\ UNCHANGED <<dataVars, thetaVars, workerVars, fgVars, statVars>>

\* update_hot_keys (lines 296-307), then the thread goes to sleep (line 45).
update_hot_keys ==
    /\ cpc = "c_update"
    /\ mutex = "free"
    /\ hot_keys' = SeqToSet(migration_queue)
    /\ cpc' = "c_loop"
    /\ sleep_left' = SleepMs
    /\ UNCHANGED <<key_stats, migration_queue, migration_in_progress, mutex, since_flush,
                   last, budget, stop_worker, adaptive_threshold>>
    /\ UNCHANGED <<dataVars, thetaVars, workerVars, fgVars, statVars>>

\* ------------------------------------------------------------ destructor
\* Lines 53-54: stop_worker_ is set.  No call follows the destructor.
DtorBegin ==
    /\ fgpc = "idle"
    /\ stop_worker' = (IF adaptive_threshold THEN TRUE ELSE stop_worker)
    /\ fgpc' = IF adaptive_threshold THEN "dtor_join" ELSE "dtor_wait"
    /\ budget' = 0
    /\ UNCHANGED <<key_stats, migration_queue, hot_keys, migration_in_progress, mutex,
                   since_flush, last, fgop, fgkey, fgval, cpc, sleep_left,
                   adaptive_threshold>>
    /\ UNCHANGED <<dataVars, thetaVars, workerVars, statVars>>

\* Lines 55-57: join of the controller thread.
DtorJoin ==
    /\ fgpc = "dtor_join"
    /\ cpc = "c_exited"
    /\ fgpc' = "dtor_wait"
    /\ UNCHANGED <<key_stats, migration_queue, hot_keys, migration_in_progress, mutex,
                   since_flush, last, budget, fgop, fgkey, fgval>>
    /\ UNCHANGED <<dataVars, thetaVars, ctlVars, workerVars, statVars>>

\* Lines 61-63: the wait for migration_in_progress_ to be false.
DtorWait ==
    /\ fgpc = "dtor_wait"
    /\ ~migration_in_progress
    /\ fgpc' = "dtor_clear"
    /\ UNCHANGED <<key_stats, migration_queue, hot_keys, migration_in_progress, mutex,
                   since_flush, last, budget, fgop, fgkey, fgval>>
    /\ UNCHANGED <<dataVars, thetaVars, ctlVars, workerVars, statVars>>

\* Lines 66-72: the collections cleared under the mutex.
DtorClear ==
    /\ fgpc = "dtor_clear"
    /\ mutex = "free"
    /\ migration_queue' = <<>>
    /\ hot_keys' = {}
    /\ key_stats' = [k \in Keys |-> NoStats]
    /\ fgpc' = "destroyed"
    /\ UNCHANGED <<migration_in_progress, mutex, since_flush, last, budget, fgop, fgkey, fgval>>
    /\ UNCHANGED <<dataVars, thetaVars, ctlVars, workerVars, statVars>>

\* ------------------------------------------------------------------ time
\* d ms pass: every stored difference now - t grows by d.  since_migration is
\* read only while is_hot is false (line 137), when it still is the epoch.
Tick(d) ==
    /\ fgpc # "destroyed"
    /\ since_flush' = Sat(since_flush + d, MaxWaitLight)
    /\ sleep_left' = Max(0, sleep_left - d)
    /\ key_stats' = [k \in Keys |->
                       IF key_stats[k].present
                       THEN [key_stats[k] EXCEPT
                                !.since_access = Sat(key_stats[k].since_access + d, StatsTtl)]
                       ELSE key_stats[k]]
    /\ UNCHANGED <<migration_queue, hot_keys, migration_in_progress, mutex, last, budget,
                   cpc, stop_worker, adaptive_threshold>>
    /\ UNCHANGED <<dataVars, thetaVars, workerVars, statVars, fgVars>>

\* ------------------------------------------------------- specification
Foreground ==
    \/ \E data \in BuildInputs : Build(data)
    \/ \E k \in Keys : EqualityLookup(k)
    \/ LookupLocked
    \/ \E lo \in Keys : \E hi \in Keys : lo <= hi /\ RangeQuery(lo, hi)
    \/ \E k \in Keys : \E v \in Values : Insert(k, v)
    \/ InsertDpgm
    \/ InsertCheck
    \/ InsertLocked
    \/ StartLoad
    \/ StartStore
    \/ DtorBegin
    \/ DtorJoin
    \/ DtorWait
    \/ DtorClear

Worker(w) ==
    \/ MigrateCheck(w)
    \/ MigrateLock1(w)
    \/ MigrateDrain(w)
    \/ MigrateLock2(w)
    \/ MigrateBulk(w)
    \/ MigrateClear(w)

Controller ==
    \/ CtlAdjust
    \/ CtlReset
    \/ update_hot_keys

Next ==
    \/ Foreground
    \/ \E w \in Workers : Worker(w)
    \/ Controller
    \/ \E d \in Durations : Tick(d)

Spec == Init /\ [][Next]_vars

\* ------------------------------------------------------------ the sweep
\* A lookup-only phase over many distinct keys: the caller builds an empty
\* index in fixed mode (params {5, 0}), inserts the keys 1..SweepLen in order
\* and then looks each of them up twice, with no time between the calls.
QueueBound == 1000 + InsertsPerCheck
SweepLen == QueueBound + 1
SweepKeys == 1..SweepLen
SweepOps == 3 * SweepLen

InitSweep ==
    /\ dpgm = [k \in SweepKeys |-> NOT_FOUND]
    /\ lipp = [k \in SweepKeys |-> NOT_FOUND]
    /\ logical = [k \in SweepKeys |-> NOT_FOUND]
    /\ key_stats = [k \in SweepKeys |-> NoStats]
    /\ migration_queue = <<>>
    /\ hot_keys = {}
    /\ migration_in_progress = FALSE
    /\ mutex = "free"
    /\ stop_worker = FALSE
    /\ adaptive_threshold = FALSE
    /\ inserts = 0
    /\ lookups = 0
    /\ since_flush = 0
    /\ fgpc = "new"
    /\ fgop = "none"
    /\ fgkey = 0
    /\ fgval = 0
    /\ cpc = "c_none"
    /\ sleep_left = 0
    /\ wpc = [w \in Workers |-> "none"]
    /\ batch = [w \in Workers |-> <<>>]
    /\ last = NoCall
    /\ migration_threshold \in {InitialThreshold(p) : p \in ThresholdParams}
    /\ twin = NoTwin
    /\ current_min = 0
    /\ budget = SweepOps

\* The number of calls issued so far.
SweepTurn == SweepOps - budget

SweepForeground ==
    \/ Build(<<>>)
    \/ SweepTurn < SweepLen /\ Insert(SweepTurn + 1, 1)
    \/ SweepTurn >= SweepLen /\ EqualityLookup(((SweepTurn - SweepLen) \div 2) + 1)
    \/ LookupLocked
    \/ InsertDpgm
    \/ InsertCheck
    \/ InsertLocked
    \/ StartLoad
    \/ StartStore

\* The schedule in which a migration thread gets the processor only once the
\* caller has issued its calls.
SweepWorker(w) == budget = 0 /\ fgpc = "idle" /\ Worker(w)

NextSweep ==
    \/ SweepForeground
    \/ \E w \in Workers : SweepWorker(w)

SweepSpec == InitSweep /\ [][NextSweep]_vars

\* KeyStats of a key after its two lookups of the sweep (lines 121-140).
SweptStats ==
    [present |-> TRUE, access_count |-> 2, since_access |-> 0, is_hot |-> TRUE,
     consecutive_accesses |-> 2, total_accesses |-> 2, since_migration |-> 0]

\* The state of the sweep when the keys 1..n have had their two lookups and
\* the migration thread created at the TriggerQueue-th key has not run yet.
SweptState(n) ==
    /\ dpgm = [k \in SweepKeys |-> 1]
    /\ lipp = [k \in SweepKeys |-> NOT_FOUND]
    /\ logical = [k \in SweepKeys |-> 1]
    /\ key_stats = [k \in SweepKeys |-> IF k <= n THEN SweptStats ELSE NoStats]
    /\ migration_queue = [i \in 1..n |-> i]
    /\ hot_keys = {}
    /\ migration_in_progress = TRUE
    /\ mutex = "free"
    /\ stop_worker = FALSE
    /\ adaptive_threshold = FALSE
    /\ inserts = SweepLen
    /\ lookups = 2 * n
    /\ since_flush = 0
    /\ fgpc = "idle"
    /\ fgop = "none"
    /\ fgkey = 0
    /\ fgval = 0
    /\ cpc = "c_none"
    /\ sleep_left = 0
    /\ wpc = [w \in Workers |-> IF w = 1 THEN "m_check" ELSE "none"]
    /\ batch = [w \in Workers |-> <<>>]
    /\ last = LookupCall(n, 1)
    /\ migration_threshold \in {InitialThreshold(p) : p \in ThresholdParams}
    /\ twin = NoTwin
    /\ current_min = 0
    /\ budget = SweepOps - SweepLen - 2 * n

\* The sweep taken up at its last keys, the thread still not run; from here
\* on the thread is scheduled freely.
QueueStarts == (QueueBound - 3)..QueueBound

InitQueue == \E n \in QueueStarts : SweptState(n)

QueueForeground ==
    \/ SweepTurn >= SweepLen /\ EqualityLookup(((SweepTurn - SweepLen) \div 2) + 1)
    \/ LookupLocked
    \/ StartLoad
    \/ StartStore

NextQueue ==
    \/ QueueForeground
    \/ \E w \in Workers : Worker(w)

QueueSpec == InitQueue /\ [][NextQueue]_vars

\* The narrow driver: an empty Build, lookups of one key, inserts of one value.
DeepBuildInputs == {<<>>}
DeepLookupKeys == {1}
DeepInsertValues == {1}

\* The steps that continue a call in progress or the destructor.
ForegroundContinues ==
    \/ LookupLocked
    \/ InsertDpgm
    \/ InsertCheck
    \/ InsertLocked
    \/ StartLoad
    \/ StartStore
    \/ DtorJoin
    \/ DtorWait
    \/ DtorClear

ForegroundDeep ==
    \/ \E data \in DeepBuildInputs : Build(data)
    \/ \E k \in DeepLookupKeys : EqualityLookup(k)
    \/ \E k \in Keys : \E v \in DeepInsertValues : Insert(k, v)
    \/ DtorBegin
    \/ ForegroundContinues

NextDeep ==
    \/ ForegroundDeep
    \/ \E w \in Workers : Worker(w)
    \/ Controller
    \/ \E d \in Durations : Tick(d)

DeepSpec == InitDeep /\ [][NextDeep]_vars

\* Every thread that can take a step eventually takes one, and time passes.
Fairness ==
    /\ WF_vars(ForegroundContinues)
    /\ \A w \in Workers : WF_vars(Worker(w))
    /\ WF_vars(Controller)
    /\ WF_vars(\E d \in Durations : Tick(d))

FairDeepSpec == DeepSpec /\ Fairness

\* ------------------------------------------------------------ applicable
\* The search kernels the benchmark configures (benchmark.cc, lines 50-54).
SearchClasses ==
    {"BranchingBinarySearch", "LinearSearch", "LinearAVX", "InterpolationSearch", "ExponentialSearch"}
OpsFilenames == {"books_100M_ops", "fb_100M_ops_mix"}

\* applicable (lines 201-204): the search kernel and all arguments but
\* unique and multithread are not consulted.
applicable(search_class, unique, range_query, insert, multithread, ops_filename) ==
    unique /\ ~multithread

\* A call of applicable on the constructed index; it is const.
Applicable(search_class, unique, range_query, insert, multithread, ops_filename) ==
    /\ last' = [op |-> "applicable",
                key |-> [search_class |-> search_class, unique |-> unique,
                         range_query |-> range_query, insert |-> insert,
                         multithread |-> multithread, ops_filename |-> ops_filename],
                hi |-> 0,
                val |-> applicable(search_class, unique, range_query, insert,
                                   multithread, ops_filename)]
    /\ UNCHANGED <<key_stats, migration_queue, hot_keys, migration_in_progress, mutex,
                   since_flush, budget>>
    /\ UNCHANGED <<dataVars, thetaVars, ctlVars, workerVars, statVars, fgVars>>

NextApplicable ==
    \E search_class \in SearchClasses, ops_filename \in OpsFilenames :
        \E unique \in BOOLEAN, range_query \in BOOLEAN, insert \in BOOLEAN,
           multithread \in BOOLEAN :
            Applicable(search_class, unique, range_query, insert, multithread, ops_filename)

ApplicableSpec == Init /\ [][NextApplicable]_vars

\* --------------------------------------------------------- the threshold
\* params[0] of the benchmark configurations (benchmark_hybrid_pgm_lipp.cc,
\* lines 15-24 and 33-52).
BenchmarkParams == {1, 2, 5, 10, 20}
\* Constructor parameters: the benchmark's and two more percentages.
ThetaParams == BenchmarkParams \cup {0, 50}

\* The narrow driver with at most ThetaOps calls, for every parameter.
InitTheta == ConstructedWith(ThetaParams) /\ budget = ThetaOps

ThetaSpec == InitTheta /\ [][NextDeep]_vars

\* ----------------------------------------------------------- the detector
\* The critical section of a lookup (lines 119-159) entered with the clock and
\* the key's statistics at chosen values.  Times are in ms since the epoch of
\* steady_clock; a KeyStats entry holds the time of its last access and, once
\* hot, the time it became hot (zero before that).
DetectorClock == {0, 49, 50, 999, 1000, 1001, 1100}
DetectorCounts == 1..3

\* The entry with its timestamps seen from the time now.
StatsAt(now, last_access_time, last_migration_time, count, consecutive, hot) ==
    [present |-> TRUE, access_count |-> count, total_accesses |-> count,
     consecutive_accesses |-> consecutive, is_hot |-> hot,
     since_access |-> Sat(now - last_access_time, StatsTtl),
     since_migration |-> Sat(now - last_migration_time, Cooldown)]

\* The entries lines 121-141 can have left behind: a key that is not hot has
\* a zero last_migration_time, fewer than HotConsecutive consecutive accesses
\* and, with HotTotal accesses, a last access within the cooldown of the
\* epoch; a hot key met one of the two conditions when it became hot.
DetectorStats ==
    {StatsAt(now, la, lm, t, c, h) :
        <<now, la, lm, t, c, h>> \in
            {x \in DetectorClock \X DetectorClock \X (DetectorClock \cup {0})
                    \X DetectorCounts \X DetectorCounts \X BOOLEAN :
                /\ x[2] <= x[1]
                /\ x[3] <= x[2]
                /\ x[5] <= x[4]
                /\ ~x[6] => x[3] = 0 /\ x[5] < HotConsecutive /\ (x[4] >= HotTotal => x[2] <= Cooldown)
                /\ x[6] => x[5] >= HotConsecutive \/ x[4] >= HotTotal}}

InitDetector ==
    /\ dpgm = [k \in Keys |-> IF k = 1 THEN 1 ELSE NOT_FOUND]
    /\ lipp = EmptyMap
    /\ logical = [k \in Keys |-> IF k = 1 THEN 1 ELSE NOT_FOUND]
    /\ key_stats \in {[k \in Keys |-> IF k = 1 THEN st ELSE NoStats] : st \in DetectorStats}
    /\ migration_queue \in (IF key_stats[1].is_hot THEN {<<>>, <<1>>} ELSE {<<>>})
    /\ hot_keys = {}
    /\ migration_in_progress = FALSE
    /\ mutex = "free"
    /\ stop_worker = FALSE
    /\ adaptive_threshold = FALSE
    /\ inserts = 1
    /\ lookups = key_stats[1].total_accesses + 1
    /\ since_flush = 0
    /\ fgpc = "lk_lock"
    /\ fgop = "lookup"
    /\ fgkey = 1
    /\ fgval = 1
    /\ cpc = "c_none"
    /\ sleep_left = 0
    /\ wpc = [w \in Workers |-> "none"]
    /\ batch = [w \in Workers |-> <<>>]
    /\ last = NoCall
    /\ migration_threshold \in {InitialThreshold(p) : p \in ThresholdParams}
    /\ twin = NoTwin
    /\ current_min = 0
    /\ budget = 0

NextDetector == LookupLocked

DetectorSpec == InitDetector /\ [][NextDetector]_vars

\* ------------------------------------------------------ the sample of Build
\* size_t arithmetic of lines 85-88.  The subtraction wraps around; the width
\* is the largest TLC's integers can hold, well above SampleCap.
SizeBits == 30
SizeMod == 2 ^ SizeBits
SizeSub(a, b) == (a - b) % SizeMod

\* A start index taken as n / 2 minus the whole sample size.
StartIdxWhole(n) == SizeSub(n \div 2, Min(n, SampleCap))

\* Line 85: sample_size, and line 88: start_idx, for data.size() = n.
SampleSize(n) == Min(n, SampleCap)
StartIdx(n) == SizeSub(n \div 2, SampleSize(n) \div 2)

\* Input sizes: the small ones, those around SampleCap and its double, and
\* large ones.
BuildSizes ==
    (0..40) \cup ((SampleCap - 2)..(SampleCap + 3))
            \cup ((2 * SampleCap - 2)..(2 * SampleCap + 3))
            \cup {SizeMod \div 2 - 1, SizeMod \div 2, SizeMod - 2, SizeMod - 1}

\* The index range Build reads from an input of n entries (lines 85-91).
SampleRange(n) ==
    /\ last' = [op |-> "sample", key |-> n, hi |-> StartIdx(n), val |-> SampleSize(n)]
    /\ UNCHANGED <<key_stats, migration_queue, hot_keys, migration_in_progress, mutex,
                   since_flush, budget>>
    /\ UNCHANGED <<dataVars, thetaVars, ctlVars, workerVars, statVars, fgVars>>

NextBuild ==
    \/ \E n \in BuildSizes : SampleRange(n)
    \/ \E data \in BuildInputs : Build(data)

BuildSpec == Init /\ [][NextBuild]_vars

\* ------------------------------------------------------- two thresholds
\* Everything of a run but migration_threshold_: the indexes, the detector's
\* state, the threads' positions and the result of the last call.
Visible == <<dpgm, lipp, key_stats, migration_queue, hot_keys, migration_in_progress,
             mutex, stop_worker, adaptive_threshold, inserts, lookups, since_flush,
             fgpc, fgop, fgkey, fgval, cpc, sleep_left, wpc, batch, last, logical, budget>>

\* params[0] of the two runs that are compared (lines 32-33).
TwinParams == {1, 20}

InitTwin == ConstructedWith(TwinParams) /\ budget = ThetaOps

\* A step of the program, either unobserved or the one step after a mark.
TwinStep ==
    /\ twin.phase = "run" \/ (twin.phase = "marked" /\ twin.pre = Visible)
    /\ NextDeep

\* The state before some step is marked.
MarkStep ==
    /\ twin.phase = "run"
    /\ twin' = [phase |-> "marked", theta |-> migration_threshold, pre |-> Visible, post |-> <<>>]
    /\ UNCHANGED <<Visible, migration_threshold, current_min>>

\* The other run: the marked state again, constructed with threshold t; the
\* state the first run reached is kept for comparison.
Replay(t) ==
    /\ twin.phase = "marked"
    /\ twin.pre # Visible
    /\ twin' = [phase |-> "replay", theta |-> twin.theta, pre |-> twin.pre, post |-> Visible]
    /\ migration_threshold' = t
    /\ dpgm' = twin.pre[1]
    /\ lipp' = twin.pre[2]
    /\ key_stats' = twin.pre[3]
    /\ migration_queue' = twin.pre[4]
    /\ hot_keys' = twin.pre[5]
    /\ migration_in_progress' = twin.pre[6]
    /\ mutex' = twin.pre[7]
    /\ stop_worker' = twin.pre[8]
    /\ adaptive_threshold' = twin.pre[9]
    /\ inserts' = twin.pre[10]
    /\ lookups' = twin.pre[11]
    /\ since_flush' = twin.pre[12]
    /\ fgpc' = twin.pre[13]
    /\ fgop' = twin.pre[14]
    /\ fgkey' = twin.pre[15]
    /\ fgval' = twin.pre[16]
    /\ cpc' = twin.pre[17]
    /\ sleep_left' = twin.pre[18]
    /\ wpc' = twin.pre[19]
    /\ batch' = twin.pre[20]
    /\ last' = twin.pre[21]
    /\ logical' = twin.pre[22]
    /\ budget' = twin.pre[23]
    /\ UNCHANGED current_min

NextTwin ==
    \/ TwinStep
    \/ MarkStep
    \/ \E p \in TwinParams : Replay(InitialThreshold(p))

TwinSpec == InitTwin /\ [][NextTwin]_vars

\* --------------------------------------------------- the full-flush variant
\* src/unnamed/part_002 (part_006 differs in the period of the check only):
\* Build loads lipp_ alone, Insert writes dpgm_ without the mutex, and a
\* migration run moves the whole of dpgm_ into lipp_. The variant is
\* constructed in fixed mode (params[1] = 0), so hot_keys_ stays empty.
CheckEvery == 1000
FlushWait == 1000
FlushHotKeys == 1000
\* insert_count is a function-static counter: the value it has when the
\* object is constructed is whatever earlier calls left in it.
InsertCountStart == 999
\* The width of KeyType and the extraction window, scaled down from 64 bits
\* and 2000000 keys; like them, KeyMod is no multiple of WindowSize + 1.
KeyBits == 2
KeyMod == 2 ^ KeyBits
\* std::numeric_limits<KeyType>::max() (line 251).
KeyMax == KeyMod - 1
WindowSize == 2
FlushOps == 3

InitFlush == ConstructedWith(ThresholdParams) /\ ~adaptive_threshold /\ budget = FlushOps

\* size() of either adapter: the number of entries.
AdapterSize(m) == Cardinality({k \in DOMAIN m : m[k] # NOT_FOUND})

\* EqualityLookup (lines 61-80): lipp_ first, then dpgm_.
FlushFound(k) ==
    IF AdapterLookup(lipp, k) # NOT_FOUND THEN AdapterLookup(lipp, k) ELSE AdapterLookup(dpgm, k)

\* should_flush (lines 133-148).
FlushDue ==
    \/ AdapterSize(dpgm) * ThresholdScale > migration_threshold * (AdapterSize(dpgm) + AdapterSize(lipp))
    \/ (since_flush > FlushWait /\ Cardinality(hot_keys) > FlushHotKeys)

FlushBuild(data) ==
    /\ fgpc = "new"
    /\ lipp' = LippBuild(lipp, data)
    /\ logical' = MapOf(data)
    /\ fgpc' = "idle"
    /\ last' = [op |-> "build", key |-> 0, hi |-> 0, val |-> 0]
    /\ UNCHANGED <<dpgm, key_stats, migration_queue, hot_keys, migration_in_progress, mutex,
                   since_flush, fgop, fgkey, fgval, budget>>
    /\ UNCHANGED <<thetaVars, ctlVars, workerVars, statVars>>

\* Lines 61-80. is_hot_key is false for every key, so line 75 starts no
\* selective migration.
FlushLookup(k) ==
    /\ fgpc = "idle"
    /\ budget > 0
    /\ key_stats' = [key_stats EXCEPT ![k] =
                        [@ EXCEPT !.present = TRUE, !.access_count = @ + 1]]
    /\ lookups' = lookups + 1
    /\ last' = LookupCall(k, FlushFound(k))
    /\ budget' = budget - 1
    /\ UNCHANGED <<migration_queue, hot_keys, migration_in_progress, mutex, since_flush,
                   inserts, fgpc, fgop, fgkey, fgval>>
    /\ UNCHANGED <<dataVars, thetaVars, ctlVars, workerVars>>

\* Lines 91-98: dpgm_.Insert without the mutex, then the periodic test. The
\* workload has unique keys (applicable).
FlushInsert(k, v) ==
    /\ fgpc = "idle"
    /\ budget > 0
    /\ logical[k] = NOT_FOUND
    /\ dpgm' = AdapterInsert(dpgm, k, v)
    /\ logical' = [logical EXCEPT ![k] = v]
    /\ inserts' = inserts + 1
    /\ last' = InsertCall(k, v)
    /\ budget' = budget - 1
    /\ fgpc' = IF (InsertCountStart + inserts + 1) % CheckEvery = 0 THEN "fi_check" ELSE "idle"
    /\ UNCHANGED <<lipp, key_stats, migration_queue, hot_keys, migration_in_progress, mutex,
                   since_flush, lookups, fgop, fgkey, fgval>>
    /\ UNCHANGED <<thetaVars, ctlVars, workerVars>>

\* Lines 99-104 and StartAsyncMigration (209-222), under the lock_guard.
FlushInsertCheck ==
    /\ fgpc = "fi_check"
    /\ mutex = "free"
    /\ IF FlushDue /\ ~migration_in_progress /\ (\E w \in Workers : wpc[w] = "none")
       THEN /\ migration_in_progress' = TRUE
            /\ wpc' = [wpc EXCEPT ![FreeWorker] = "x_window"]
            /\ batch' = [batch EXCEPT ![FreeWorker] = <<>>]
            /\ current_min' = 0
       ELSE UNCHANGED <<migration_in_progress, wpc, batch, current_min>>
    /\ fgpc' = "idle"
    /\ UNCHANGED <<key_stats, migration_queue, hot_keys, mutex, since_flush, last, budget,
                   fgop, fgkey, fgval, migration_threshold, twin>>
    /\ UNCHANGED <<dataVars, ctlVars, statVars>>

\* Line 258: std::min(current_min + window_size, max_key), in KeyType.
CurrentMax == Min((current_min + WindowSize) % KeyMod, KeyMax)

\* The entries the for loop of lines 262-267 finds in [lo, hi].
InWindow(m, lo, hi) ==
    [i \in 1..Len(SetToSortedSeq({k \in DOMAIN m : lo <= k /\ k <= hi /\ m[k] # NOT_FOUND})) |->
        [key |-> SetToSortedSeq({k \in DOMAIN m : lo <= k /\ k <= hi /\ m[k] # NOT_FOUND})[i],
         value |-> m[SetToSortedSeq({k \in DOMAIN m : lo <= k /\ k <= hi /\ m[k] # NOT_FOUND})[i]]]]

\* output.push_back, the vector kept up to repetition: a second copy of an
\* entry changes neither the sort nor the bulk load.
PushBack(output, entries) ==
    output \o SelectSeq(entries, LAMBDA e : e \notin SeqToSet(output))

\* One iteration of the while loop (lines 257-271). With current_max =
\* max_key the test key <= current_max of line 262 never fails.
ExtractWindow(w) ==
    /\ wpc[w] = "x_window"
    /\ IF AdapterRange(dpgm, current_min, CurrentMax) > 0
       THEN /\ batch' = [batch EXCEPT ![w] = PushBack(@, InWindow(dpgm, current_min, CurrentMax))]
            /\ IF CurrentMax = KeyMax
               THEN /\ wpc' = [wpc EXCEPT ![w] = "x_for"]
                    /\ UNCHANGED current_min
               ELSE /\ current_min' = (CurrentMax + 1) % KeyMod
                    /\ UNCHANGED wpc
       ELSE /\ current_min' = (CurrentMax + 1) % KeyMod
            /\ UNCHANGED <<wpc, batch>>
    /\ UNCHANGED <<key_stats, migration_queue, hot_keys, migration_in_progress, mutex,
                   since_flush, last, budget, migration_threshold, twin>>
    /\ UNCHANGED <<dataVars, ctlVars, fgVars, statVars>>

\* The for loop of lines 262-267 going round the key space once more.
ExtractFor(w) ==
    /\ wpc[w] = "x_for"
    /\ batch' = [batch EXCEPT ![w] = PushBack(@, InWindow(dpgm, 0, KeyMax))]
    /\ UNCHANGED <<key_stats, migration_queue, hot_keys, migration_in_progress, mutex,
                   since_flush, last, budget, wpc>>
    /\ UNCHANGED <<dataVars, thetaVars, ctlVars, fgVars, statVars>>

\* push_back (line 265) throws std::bad_alloc; the catch of line 272 ends
\* ExtractDPGMData with what output holds.
ExtractThrows(w) ==
    /\ \/ wpc[w] = "x_window" /\ AdapterRange(dpgm, current_min, CurrentMax) > 0
       \/ wpc[w] = "x_for" /\ InWindow(dpgm, 0, KeyMax) # <<>>
    /\ wpc' = [wpc EXCEPT ![w] = "x_done"]
    /\ UNCHANGED <<key_stats, migration_queue, hot_keys, migration_in_progress, mutex,
                   since_flush, last, budget, batch>>
    /\ UNCHANGED <<dataVars, thetaVars, ctlVars, fgVars, statVars>>

\* Lines 228-238: the early return on an empty vector, else the sort.
ExtractDone(w) ==
    /\ wpc[w] = "x_done"
    /\ IF batch[w] = <<>>
       THEN /\ migration_in_progress' = FALSE
            /\ wpc' = [wpc EXCEPT ![w] = "x_end"]
            /\ UNCHANGED batch
       ELSE /\ batch' = [batch EXCEPT ![w] = SortByKey(@)]
            /\ wpc' = [wpc EXCEPT ![w] = "x_lock"]
            /\ UNCHANGED migration_in_progress
    /\ UNCHANGED <<key_stats, migration_queue, hot_keys, mutex, since_flush, last, budget>>
    /\ UNCHANGED <<dataVars, thetaVars, ctlVars, fgVars, statVars>>

\* Lines 241-242: lock_guard, lipp_.Build(dpgm_data, 1).
FlushLoad(w) ==
    /\ wpc[w] = "x_lock"
    /\ mutex = "free"
    /\ mutex' = "mw"
    /\ lipp' = LippBuild(lipp, batch[w])
    /\ wpc' = [wpc EXCEPT ![w] = "x_replace"]
    /\ UNCHANGED <<dpgm, logical, key_stats, migration_queue, hot_keys, migration_in_progress,
                   since_flush, last, budget, batch>>
    /\ UNCHANGED <<thetaVars, ctlVars, fgVars, statVars>>

\* Lines 243-244: dpgm_ is replaced by an empty index, the lock released.
FlushReplace(w) ==
    /\ wpc[w] = "x_replace"
    /\ dpgm' = EmptyMap
    /\ mutex' = "free"
    /\ wpc' = [wpc EXCEPT ![w] = "x_end"]
    /\ UNCHANGED <<lipp, logical, key_stats, migration_queue, hot_keys, migration_in_progress,
                   since_flush, last, budget, batch>>
    /\ UNCHANGED <<thetaVars, ctlVars, fgVars, statVars>>

\* Lines 217-219: the thread clears the flag and stamps last_flush_time_.
FlushEnd(w) ==
    /\ wpc[w] = "x_end"
    /\ migration_in_progress' = FALSE
    /\ since_flush' = 0
    /\ wpc' = [wpc EXCEPT ![w] = "none"]
    /\ batch' = [batch EXCEPT ![w] = <<>>]
    /\ UNCHANGED <<key_stats, migration_queue, hot_keys, mutex, last, budget>>
    /\ UNCHANGED <<dataVars, thetaVars, ctlVars, fgVars, statVars>>

\* The migration thread but for a failing allocation.
FlushWorker(w) ==
    \/ ExtractWindow(w)
    \/ ExtractFor(w)
    \/ ExtractDone(w)
    \/ FlushLoad(w)
    \/ FlushReplace(w)
    \/ FlushEnd(w)

NextFlush ==
    \/ \E data \in BuildInputs : FlushBuild(data)
    \/ \E k \in Keys : FlushLookup(k)
    \/ \E k \in Keys, v \in Values : FlushInsert(k, v)
    \/ FlushInsertCheck
    \/ \E w \in Workers : FlushWorker(w)
    \/ \E w \in Workers : ExtractThrows(w)

FlushSpec == InitFlush /\ [][NextFlush]_vars

\* The threads keep running; no allocation is bound to fail.
FairFlushSpec ==
    FlushSpec /\ WF_vars(FlushInsertCheck) /\ \A w \in Workers : WF_vars(FlushWorker(w))

\* ---------------------------------------------- the flush-threshold variant
\* HybridPgmLipp with async_flush = true (src/benchmark.cc, lines 526-592;
\* declared in src/CMakeLists.txt, lines 92-123). stop_worker is _stop_flag,
\* mutex is _mtx, inserts is _dpgm_count, cpc the position of _flusher.
FlushThreshold == 2
HplOps == 3

InitHpl == ConstructedWith(ThresholdParams) /\ ~adaptive_threshold /\ budget = HplOps

\* _cv.notify_one(): a thread blocked in wait is made runnable; with no
\* thread waiting the call has no effect.
NotifyOne(pc) == IF pc = "f_wait" THEN "f_woken" ELSE pc

\* The constructor (lines 527-539) starts the flusher thread.
HplConstruct ==
    /\ fgpc = "new"
    /\ fgpc' = "idle"
    /\ cpc' = "f_loop"
    /\ UNCHANGED <<key_stats, migration_queue, hot_keys, migration_in_progress, mutex,
                   stop_worker, adaptive_threshold, since_flush, fgop, fgkey, fgval,
                   sleep_left, last, budget>>
    /\ UNCHANGED <<dataVars, thetaVars, workerVars, statVars>>

\* insert (lines 551-556) under lock_guard, maybe_flush (lines 582-590).
HplInsert(k, v) ==
    /\ fgpc = "idle"
    /\ budget > 0
    /\ mutex = "free"
    /\ dpgm' = AdapterInsert(dpgm, k, v)
    /\ logical' = [logical EXCEPT ![k] = v]
    /\ inserts' = inserts + 1
    /\ cpc' = IF inserts + 1 >= FlushThreshold THEN NotifyOne(cpc) ELSE cpc
    /\ last' = InsertCall(k, v)
    /\ budget' = budget - 1
    /\ UNCHANGED <<lipp, key_stats, migration_queue, hot_keys, migration_in_progress, mutex,
                   stop_worker, adaptive_threshold, since_flush, lookups, sleep_left>>
    /\ UNCHANGED <<thetaVars, workerVars, fgVars>>

\* find (lines 559-566): _dpgm first, then _lipp.
HplFind(k) ==
    /\ fgpc = "idle"
    /\ budget > 0
    /\ last' = LookupCall(k, IF AdapterLookup(dpgm, k) # NOT_FOUND
                             THEN AdapterLookup(dpgm, k) ELSE AdapterLookup(lipp, k))
    /\ budget' = budget - 1
    /\ UNCHANGED <<key_stats, migration_queue, hot_keys, migration_in_progress, mutex,
                   since_flush>>
    /\ UNCHANGED <<dataVars, thetaVars, ctlVars, workerVars, fgVars, statVars>>

\* The destructor, line 544: _stop_flag = true, mutex_ not held.
HplDtorStore ==
    /\ fgpc = "idle"
    /\ stop_worker' = TRUE
    /\ fgpc' = "d_notify"
    /\ UNCHANGED <<key_stats, migration_queue, hot_keys, migration_in_progress, mutex,
                   adaptive_threshold, since_flush, fgop, fgkey, fgval, cpc, sleep_left,
                   last, budget>>
    /\ UNCHANGED <<dataVars, thetaVars, workerVars, statVars>>

\* Line 545: _cv.notify_one().
HplDtorNotify ==
    /\ fgpc = "d_notify"
    /\ cpc' = NotifyOne(cpc)
    /\ fgpc' = "d_join"
    /\ UNCHANGED <<key_stats, migration_queue, hot_keys, migration_in_progress, mutex,
                   stop_worker, adaptive_threshold, since_flush, fgop, fgkey, fgval,
                   sleep_left, last, budget>>
    /\ UNCHANGED <<dataVars, thetaVars, workerVars, statVars>>

\* Line 546: _flusher.join() returns once the thread has ended.
HplDtorJoin ==
    /\ fgpc = "d_join"
    /\ cpc = "f_exited"
    /\ fgpc' = "destroyed"
    /\ UNCHANGED <<key_stats, migration_queue, hot_keys, migration_in_progress, mutex,
                   since_flush, fgop, fgkey, fgval, last, budget>>
    /\ UNCHANGED <<dataVars, thetaVars, ctlVars, workerVars, statVars>>

\* Lines 531-532: the loop test, then the unique_lock.
FlusherLock ==
    /\ cpc = "f_loop"
    /\ IF stop_worker
       THEN /\ cpc' = "f_exited"
            /\ UNCHANGED mutex
       ELSE /\ mutex = "free"
            /\ mutex' = "fl"
            /\ cpc' = "f_pred"
    /\ UNCHANGED <<key_stats, migration_queue, hot_keys, migration_in_progress,
                   stop_worker, adaptive_threshold, since_flush, sleep_left, last, budget>>
    /\ UNCHANGED <<dataVars, thetaVars, workerVars, fgVars, statVars>>

\* Line 533: wait evaluates its predicate holding the lock.
FlusherPred ==
    /\ cpc = "f_pred"
    /\ cpc' = IF stop_worker \/ inserts >= FlushThreshold THEN "f_check" ELSE "f_block"
    /\ UNCHANGED <<key_stats, migration_queue, hot_keys, migration_in_progress, mutex,
                   stop_worker, adaptive_threshold, since_flush, sleep_left, last, budget>>
    /\ UNCHANGED <<dataVars, thetaVars, workerVars, fgVars, statVars>>

\* Line 533: the predicate was false; wait releases the lock and blocks.
FlusherWait ==
    /\ cpc = "f_block"
    /\ mutex' = "free"
    /\ cpc' = "f_wait"
    /\ UNCHANGED <<key_stats, migration_queue, hot_keys, migration_in_progress,
                   stop_worker, adaptive_threshold, since_flush, sleep_left, last, budget>>
    /\ UNCHANGED <<dataVars, thetaVars, workerVars, fgVars, statVars>>

\* A spurious wake-up, which wait allows and nothing promises.
FlusherSpurious ==
    /\ cpc = "f_wait"
    /\ cpc' = "f_woken"
    /\ UNCHANGED <<key_stats, migration_queue, hot_keys, migration_in_progress, mutex,
                   stop_worker, adaptive_threshold, since_flush, sleep_left, last, budget>>
    /\ UNCHANGED <<dataVars, thetaVars, workerVars, fgVars, statVars>>

\* Line 533: the woken thread takes the lock again for the predicate.
FlusherReacquire ==
    /\ cpc = "f_woken"
    /\ mutex = "free"
    /\ mutex' = "fl"
    /\ cpc' = "f_pred"
    /\ UNCHANGED <<key_stats, migration_queue, hot_keys, migration_in_progress,
                   stop_worker, adaptive_threshold, since_flush, sleep_left, last, budget>>
    /\ UNCHANGED <<dataVars, thetaVars, workerVars, fgVars, statVars>>

\* Lines 534-536: break on the flag, else flush (lines 569-580); the lock
\* is released at the end of the iteration.
FlusherCheck ==
    /\ cpc = "f_check"
    /\ mutex' = "free"
    /\ IF stop_worker
       THEN /\ cpc' = "f_exited"
            /\ UNCHANGED <<dpgm, lipp, inserts>>
       ELSE /\ lipp' = [k \in DOMAIN lipp |-> IF dpgm[k] # NOT_FOUND THEN dpgm[k] ELSE lipp[k]]
            /\ dpgm' = EmptyMap
            /\ inserts' = 0
            /\ cpc' = "f_loop"
    /\ UNCHANGED <<logical, key_stats, migration_queue, hot_keys, migration_in_progress,
                   stop_worker, adaptive_threshold, since_flush, lookups, sleep_left, last, budget>>
    /\ UNCHANGED <<thetaVars, workerVars, fgVars>>

\* The flusher thread but for spurious wake-ups.
Flusher ==
    \/ FlusherLock
    \/ FlusherPred
    \/ FlusherWait
    \/ FlusherReacquire
    \/ FlusherCheck

\* The destructor once entered.
HplDtorContinues == HplDtorNotify \/ HplDtorJoin

NextHpl ==
    \/ HplConstruct
    \/ \E k \in Keys, v \in Values : HplInsert(k, v)
    \/ \E k \in Keys : HplFind(k)
    \/ HplDtorStore
    \/ HplDtorContinues
    \/ Flusher
    \/ FlusherSpurious

HplSpec == InitHpl /\ [][NextHpl]_vars

\* Both threads keep running.
FairHplSpec == HplSpec /\ WF_vars(Flusher) /\ WF_vars(HplDtorContinues)

\* ================================================================ claims
Placed(k) == logical[k] # NOT_FOUND
InDpgm(k) == dpgm[k] # NOT_FOUND
InLipp(k) == lipp[k] # NOT_FOUND

\* The batch of thread w has been bulk-loaded (lines 377-378 done, line 322 not yet).
Loaded(w) == wpc[w] = "m_clear" /\ batch[w] # <<>>

\* C1 (as claimed): read-your-writes.  A PointLookup of a key that was built
\* or inserted returns the value most recently built or inserted for it.
C1_ReadYourWrites ==
    last.op = "lookup" /\ Placed(last.key) => last.val = logical[last.key]

\* C2: no key is lost.  In every state, every key placed by Build or Insert is
\* resident in dpgm_ or in lipp_, and no PointLookup of a placed key returns
\* NOT_FOUND.
C2_NoKeyLost ==
    /\ \A k \in Keys : Placed(k) => InDpgm(k) \/ InLipp(k)
    /\ last.op = "lookup" /\ Placed(last.key) => last.val # NOT_FOUND

\* C2 witness: a migration run has replaced the contents of lipp_ and a
\* placed key is resident in dpgm_ only.
C2_Witness ==
    /\ \E w \in Workers : Loaded(w)
    /\ \E k \in Keys : Placed(k) /\ ~InLipp(k) /\ InDpgm(k)

\* The sum of the logical values of the keys in [lo, hi].
LogicalSum(lo, hi) == AdapterRange(logical, lo, hi)

\* C3 (as claimed): range consistency.  RangeQuery(lo, hi) returns the sum of
\* the values of the live keys in [lo, hi], each key counted once.
C3_RangeConsistency ==
    last.op = "range" => last.val = LogicalSum(last.key, last.hi)

\* The value the two-tier protocol prescribes for key k in the current state.
TwoTier(k) ==
    IF InLipp(k) THEN lipp[k] ELSE IF InDpgm(k) THEN dpgm[k] ELSE NOT_FOUND

\* C4: the LIT-first protocol.  Every PointLookup(k) takes lipp_'s value when
\* lipp_ holds k, otherwise dpgm_'s value when dpgm_ holds k, otherwise
\* NOT_FOUND, as of the moment it consults the indexes; and that value is
\* what the call returns.
C4_LitFirst ==
    [][/\ \A k \in Keys :
             EqualityLookup(k) =>
                 IF fgpc' = "lk_lock" THEN fgval' = TwoTier(k)
                 ELSE last' = LookupCall(k, TwoTier(k))
       /\ fgop = "lookup" /\ fgop' = "none" => last' = LookupCall(fgkey, fgval)]_vars

\* C4 witness: a lookup served by dpgm_ has returned through the critical
\* section, for a key that lipp_ does not hold.
C4_Witness ==
    /\ last.op = "lookup"
    /\ last.val # NOT_FOUND
    /\ ~InLipp(last.key)
    /\ key_stats[last.key].present
    /\ key_stats[last.key].since_access = 0

\* C5: no phantom keys.  In every state only keys placed by Build or Insert
\* are resident in either index, and a PointLookup returns a value other than
\* NOT_FOUND only for a placed key.
C5_NoPhantom ==
    /\ \A k \in Keys : InDpgm(k) \/ InLipp(k) => Placed(k)
    /\ last.op = "lookup" /\ last.val # NOT_FOUND => Placed(last.key)

\* C5 witness: a lookup of a never placed key has returned NOT_FOUND while
\* another key is queued for migration.
C5_Witness ==
    /\ last.op = "lookup"
    /\ ~Placed(last.key)
    /\ last.val = NOT_FOUND
    /\ migration_queue # <<>>

\* C6 (as claimed): tier exclusivity.  A key is resident in both indexes only
\* while a migration run whose batch contains it has bulk-loaded it and not
\* yet finished.
C6_TierExclusive ==
    \A k \in Keys :
        InDpgm(k) /\ InLipp(k) => \E w \in Workers : Loaded(w) /\ k \in SeqKeys(batch[w])

\* C7 (as claimed): hot-set soundness.  Every key of hot_keys_ is resident in
\* lipp_ with its logical value.
C7_HotSetSound ==
    \A k \in hot_keys : InLipp(k) /\ lipp[k] = logical[k]

\* The migration threads that have been started and have not ended.
Alive == {w \in Workers : wpc[w] # "none"}

\* C8: at most one migration worker is active at any time, the flag is set
\* while it is, and a migration thread is started only by a step that moves
\* migration_in_progress_ from false to true.
C8_SingleWorker ==
    /\ [](Cardinality(Alive) <= 1 /\ (Alive # {} => migration_in_progress))
    /\ [][(\E w \in Workers : wpc[w] = "none" /\ wpc'[w] # "none")
              => ~migration_in_progress /\ migration_in_progress']_vars

\* C8 witness: an Insert reaches its flush check under way while a migration
\* thread started by an earlier call has not ended.
C8_Witness ==
    /\ fgpc = "ins_lock"
    /\ fgop = "insert"
    /\ migration_in_progress
    /\ Alive # {}

\* A call of PointLookup or Insert is in progress.
InCall == fgpc \in {"lk_lock", "ins_dpgm", "ins_check", "ins_lock", "sam_load", "sam_store"}

\* Some thread is in the middle of its work.
ThreadsLive ==
    \/ fgpc \notin {"new", "idle", "destroyed"}
    \/ Alive # {}
    \/ cpc \in {"c_reset", "c_update"}

\* The controller is asleep and wakes when time has passed.
Sleeping == cpc = "c_loop" /\ sleep_left > 0

\* No thread holds the mutex while it waits, and while a thread is in the
\* middle of its work some thread can take a step.
NoDeadlock ==
    /\ mutex = "fg" => ENABLED (StartLoad \/ StartStore)
    /\ mutex = "mw" => ENABLED (\E w \in Workers : MigrateDrain(w) \/ MigrateBulk(w))
    /\ ThreadsLive =>
           \/ ENABLED (ForegroundContinues \/ (\E w \in Workers : Worker(w)) \/ Controller)
           \/ Sleeping

\* C9: no reachable state is a deadlock among the foreground thread, the
\* migration worker and the controller, and every call of PointLookup or
\* Insert in progress completes, a migration run in progress or not.
C9_DeadlockFree ==
    /\ []NoDeadlock
    /\ InCall ~> fgpc = "idle"

\* C9 witness: a PointLookup waits for the mutex that the migration worker
\* holds during its run.
C9_Witness ==
    /\ fgpc = "lk_lock"
    /\ mutex = "mw"
    /\ migration_in_progress

\* C10: the destructor always completes; it clears the collections only once
\* the controller has exited, the flag is false and no migration thread is
\* left, and nothing runs after it.
C10_DestructionTerminates ==
    /\ [](fgpc \in {"dtor_clear", "destroyed"} =>
              /\ ~migration_in_progress
              /\ Alive = {}
              /\ cpc \in {"c_none", "c_exited"})
    /\ [](fgpc = "destroyed" =>
              /\ migration_queue = <<>>
              /\ hot_keys = {}
              /\ \A k \in Keys : ~key_stats[k].present)
    /\ fgpc \in {"dtor_join", "dtor_wait"} ~> fgpc = "destroyed"

\* C10 witness: the destructor has joined the controller and waits for the
\* flag while a migration thread is at its bulk load.
C10_Witness ==
    /\ fgpc = "dtor_wait"
    /\ cpc = "c_exited"
    /\ migration_in_progress
    /\ \E w \in Workers : wpc[w] = "m_bulk"

\* The destructor has been entered.
InDestructor == fgpc \in {"dtor_join", "dtor_wait", "dtor_clear", "destroyed"}

\* An Insert is in progress or was the last call that returned.
InsertSeen == fgop = "insert" \/ fgpc \in {"ins_dpgm", "ins_check", "ins_lock"} \/ last.op = "insert"

\* Key k is in dpgm_ only and its last three lookups were each within the
\* 50 ms window of the one before.
ThriceLookedUp(k) ==
    /\ InDpgm(k)
    /\ ~InLipp(k)
    /\ key_stats[k].present
    /\ key_stats[k].consecutive_accesses >= 3

\* C11: with the controller running, a key resident in dpgm_ only that has
\* been looked up three times in quick succession is later resident in lipp_
\* and a member of hot_keys_, unless the caller issues an Insert or destroys
\* the index first.
C11_HotMissPromotion ==
    \A k \in Keys :
        (adaptive_threshold /\ ThriceLookedUp(k))
            ~> ((InLipp(k) /\ k \in hot_keys) \/ InsertSeen \/ InDestructor)

\* C12: with the controller running, once migration_queue_ is non-empty it
\* becomes empty again, unless the caller issues an Insert.
C12_MigrationProgress ==
    (adaptive_threshold /\ migration_queue # <<>>) ~> (migration_queue = <<>> \/ InsertSeen)

\* C13: migration_queue_ never holds more than batch_max + N keys
\* (batch_max = 1000, N = the 50 inserts between two flush checks).
C13_QueueBound == Len(migration_queue) <= QueueBound

\* C14: the migration threshold lies in [0.005, 0.3] in every state.
C14_ThresholdBounds ==
    /\ ThresholdScale \div 200 <= migration_threshold
    /\ migration_threshold <= (3 * ThresholdScale) \div 10

\* A controller tick that adjusts the threshold with an insert ratio above 0.7.
InsertHeavyTick ==
    /\ cpc = "c_loop"
    /\ cpc' = "c_reset"
    /\ 10 * inserts > 7 * (inserts + lookups)

\* C15: in adaptive mode, started from one of the benchmark's thresholds, a
\* tick with an insert ratio above 0.7 does not decrease the threshold and
\* leaves it at 0.1 at most.
C15_AdaptiveBackoff ==
    [][InsertHeavyTick /\ migration_threshold <= InitialThreshold(20)
           => /\ migration_threshold' >= migration_threshold
              /\ migration_threshold' <= ThresholdScale \div 10]_vars

\* The record of key k has not been accessed for longer than the 250 ms.
Aged(k) == key_stats[k].present /\ key_stats[k].since_access > StatsTtl

\* C16: with the controller running, a record of key_stats_ that has not
\* been accessed for longer than 250 ms is eventually removed, unless the key
\* is accessed again first.
C16_StatsAging ==
    \A k \in Keys :
        (adaptive_threshold /\ Aged(k)) ~> (~key_stats[k].present \/ ~Aged(k))

\* Migration thread w takes a step of a run that finds the queue empty.
EmptyRunStep(w) ==
    /\ wpc'[w] # wpc[w]
    /\ wpc[w] \in {"m_check", "m_lock1", "m_drain", "m_clear"}
    /\ batch[w] = <<>>
    /\ migration_queue = <<>>

\* C17: a run of the migration thread on an empty queue changes none of
\* dpgm_, lipp_, hot_keys_, key_stats_, migration_queue_ and last_flush_time_,
\* and the flag is false when the thread has ended.
C17_EmptyRunNoOp ==
    [][\A w \in Workers :
           EmptyRunStep(w) =>
               /\ UNCHANGED <<dpgm, lipp, hot_keys, key_stats, migration_queue, since_flush>>
               /\ wpc'[w] = "none" => ~migration_in_progress']_vars

\* C17 witness: a migration thread has found the queue empty and is about to
\* clear the flag, some time after the last flush.
C17_Witness ==
    /\ migration_queue = <<>>
    /\ migration_in_progress
    /\ since_flush > 0
    /\ \E w \in Workers : wpc[w] = "m_clear" /\ batch[w] = <<>>

\* C18: applicable returns false whenever the search kernel is an AVX
\* variant or multithread is true.
C18_Applicable ==
    last.op = "applicable" /\ (last.key.search_class = "LinearAVX" \/ last.key.multithread)
        => ~last.val

\* The step of worker w that performs the bulk load of its batch (lines 375-386).
BulkLoadStep(w) == wpc[w] = "m_bulk" /\ wpc'[w] = "m_clear"

\* C19: a bulk load merges: every key resident in lipp_ before the bulk load
\* of a migration run and not contained in the run's batch is resident in
\* lipp_ with the same value after it.
C19_BulkLoadMerges ==
    [][\A w \in Workers :
           BulkLoadStep(w) =>
               \A k \in Keys :
                   InLipp(k) /\ k \notin SeqKeys(batch[w]) => lipp'[k] = lipp[k]]_vars

\* The step that ends the run of worker w (line 322, after MigrateHotKeys
\* returned), and a run whose bulk load succeeded: its batch was loaded and
\* its keys were marked hot (line 378).
RunEndStep(w) == wpc[w] = "m_clear" /\ wpc'[w] = "none"
Migrated(w) == Loaded(w) /\ SeqKeys(batch[w]) \subseteq hot_keys

\* C20: eviction: when a migration run completes successfully, every key of
\* its batch has been removed from dpgm_ and is resident in lipp_ only.
C20_Eviction ==
    [][\A w \in Workers :
           RunEndStep(w) /\ Migrated(w) =>
               \A k \in SeqKeys(batch[w]) :
                   dpgm'[k] = NOT_FOUND /\ lipp'[k] # NOT_FOUND]_vars

\* The routing decision of Insert (lines 174-181) for key k: the call writes
\* to lipp_ and returns, or goes on to dpgm_.Insert.
RoutedToLipp(k) ==
    fgpc = "idle" /\ fgpc' = "idle" /\ budget' < budget /\ last'.op = "insert" /\ last'.key = k
RoutedToDpgm(k) == fgpc = "idle" /\ fgpc' = "ins_dpgm" /\ fgkey' = k

\* k is known hot: its KeyStats says so, or it is a member of hot_keys_.
KnownHot(k) == (key_stats[k].present /\ key_stats[k].is_hot) \/ k \in hot_keys

\* C21: insert routing.  Insert(k, v) writes to lipp_ only, when k is known
\* hot (is_hot set, or k in hot_keys_ also with its KeyStats aged out), and
\* goes to dpgm_ only otherwise.
C21_InsertRouting ==
    [][\A k \in Keys :
           /\ RoutedToLipp(k) => KnownHot(k) /\ lipp'[k] = last'.val /\ dpgm' = dpgm
           /\ RoutedToDpgm(k) => ~KnownHot(k)]_vars

\* The foreground is inside dpgm_.Insert (line 185), and worker w is inside
\* the loop of dpgm_.EqualityLookup calls (lines 348-359) or inside
\* lipp_.Build (line 377).
InDpgmInsert == fgpc = "ins_dpgm"
InDpgmRead(w) == wpc[w] = "m_drain" /\ migration_queue # <<>>
InLippBuild(w) == wpc[w] = "m_bulk"

\* C22: core-lock discipline.  Every foreground mutation of a tier and every
\* access of the migration thread to a tier is made under mutex_, so Insert
\* is never inside dpgm_.Insert while a migration thread is inside
\* dpgm_.EqualityLookup or lipp_.Build.
C22_CoreLock ==
    \A w \in Workers : ~(InDpgmInsert /\ (InDpgmRead(w) \/ InLippBuild(w)))

\* The step of worker w that takes the snapshot and clears the queue
\* (lines 342-361).
DrainStep(w) == wpc[w] = "m_drain" /\ wpc'[w] # "m_drain"

IsPrefix(s, t) == Len(s) <= Len(t) /\ SubSeq(t, 1, Len(s)) = s

\* C23: draining is atomic with respect to enqueue.  A drain step puts every
\* key of migration_queue_ into its snapshot, once, and leaves the queue
\* empty; every other step short of the destructor leaves the queued keys
\* in the queue.
C23_DrainAtomic ==
    [][/\ \A w \in Workers :
              DrainStep(w) =>
                  /\ SeqKeys(batch'[w]) = SeqToSet(migration_queue)
                  /\ Len(batch'[w]) = Len(migration_queue)
                  /\ migration_queue' = <<>>
       /\ (\A w \in Workers : ~DrainStep(w)) /\ fgpc # "dtor_clear"
              => IsPrefix(migration_queue, migration_queue')]_vars

\* A run has drained a non-empty queue while a lookup was waiting to enter
\* its critical section.
C23_Witness ==
    \E w \in Workers :
        wpc[w] = "m_lock2" /\ batch[w] # <<>> /\ migration_queue = <<>> /\ fgpc = "lk_lock"

\* The bulk load of worker w threw (lines 379-385): lipp_ does not hold the
\* batch after the step.
ThrowStep(w) == BulkLoadStep(w) /\ lipp' # LippBuild(lipp, batch[w])

\* C24: rollback.  When the bulk load of a run throws, none of the batch's
\* keys is in hot_keys_ afterwards, no key is put back into the queue, and
\* every key of the batch is still resident in dpgm_ with its value; the
\* step that ends a run clears migration_in_progress_ and changes none of
\* these.
C24_Rollback ==
    [][\A w \in Workers :
           /\ ThrowStep(w) =>
                  /\ hot_keys' \cap SeqKeys(batch[w]) = {}
                  /\ migration_queue' = migration_queue
                  /\ \A i \in 1..Len(batch[w]) : dpgm'[batch[w][i].key] = batch[w][i].value
                  /\ lipp' = lipp
           /\ RunEndStep(w) =>
                  /\ ~migration_in_progress'
                  /\ UNCHANGED <<hot_keys, migration_queue, dpgm, lipp>>]_vars

\* The bulk load of a run has thrown and the run has not ended yet.
C24_Witness ==
    \E w \in Workers :
        /\ Loaded(w)
        /\ migration_in_progress
        /\ \A k \in SeqKeys(batch[w]) : ~InLipp(k) /\ InDpgm(k) /\ k \notin hot_keys

\* The detector processes an access to key k (lines 120-158).
DetectStep(k) == fgpc = "lk_lock" /\ fgpc' # "lk_lock" /\ fgkey = k

\* The entry the detector starts from: operator[] creates one when absent.
StatsBefore(k) == IF key_stats[k].present THEN key_stats[k] ELSE NewStats

\* C25: hot classification.  On an access to a key, consecutive_accesses is
\* incremented when the previous access was less than 50 ms ago and reset to
\* 1 otherwise; a key that is not yet hot becomes hot (is_hot set,
\* last_migration_time = now, key enqueued) if and only if
\* consecutive_accesses >= 2, or access_count >= 3 and at least the 1 s
\* cooldown has elapsed since last_migration_time; a key already hot is not
\* enqueued again.
C25_HotClassification ==
    [][\A k \in Keys :
           DetectStep(k) =>
               /\ key_stats'[k].consecutive_accesses =
                      IF StatsBefore(k).since_access < ConsecutiveWindow
                      THEN StatsBefore(k).consecutive_accesses + 1 ELSE 1
               /\ ~StatsBefore(k).is_hot =>
                      ((/\ key_stats'[k].is_hot
                        /\ key_stats'[k].since_migration = 0
                        /\ k \in SeqToSet(migration_queue'))
                       <=> (\/ key_stats'[k].consecutive_accesses >= HotConsecutive
                            \/ /\ key_stats'[k].access_count >= HotTotal
                               /\ StatsBefore(k).since_migration >= Cooldown))
               /\ StatsBefore(k).is_hot => migration_queue' = migration_queue]_vars

\* The step that serves a call on key k: a lookup answered by lipp_ (lines
\* 108-112), the critical section of a lookup answered by dpgm_ (lines
\* 119-159), an insert into lipp_ (line 178) or into dpgm_ (line 185).
LippHitStep(k) ==
    /\ fgpc = "idle" /\ fgpc' = "idle" /\ budget' < budget
    /\ last'.op = "lookup" /\ last'.key = k /\ last'.val # NOT_FOUND
DpgmInsertStep(k) == fgpc = "ins_dpgm" /\ fgpc' = "ins_check" /\ fgkey = k
ServedStep(k) == LippHitStep(k) \/ DetectStep(k) \/ RoutedToLipp(k) \/ DpgmInsertStep(k)

\* C26: detector coverage.  Every successful lookup, served by lipp_ or by
\* dpgm_, and every insert updates key_stats_[k]: the entry exists
\* afterwards, access_count has grown by one and last_access_time is now.
C26_DetectorCoverage ==
    [][\A k \in Keys :
           ServedStep(k) =>
               /\ key_stats'[k].present
               /\ key_stats'[k].access_count = StatsBefore(k).access_count + 1
               /\ key_stats'[k].since_access = 0]_vars

\* The detector step asks for a migration run: StartAsyncMigration is called
\* (line 155).
RunRequested == fgpc' = "sam_load"

\* C27: worker wake-up from the detector.  On every detector update, newly
\* hot or not, when the queue has reached the batch target or the key's
\* consecutive_accesses is at least 3, and no migration is in progress, a
\* migration run is requested.
C27_DetectorWakeUp ==
    [][\A k \in Keys :
           (/\ DetectStep(k)
            /\ \/ Len(migration_queue') >= TriggerQueue
               \/ key_stats'[k].consecutive_accesses >= TriggerConsecutive
            /\ ~migration_in_progress)
               => RunRequested]_vars

\* The flush predicate as claimed: the batch target and the wait chosen by
\* the insert ratio (insert-heavy only when there are operations and more
\* than 0.7 of them are inserts), the wait compared with >=.
FlushNow ==
    LET total_ops == inserts + lookups
        heavy == total_ops > 0 /\ 10 * inserts > 7 * total_ops
        min_batch == IF heavy THEN MinBatchHeavy ELSE MinBatchLight
        max_wait == IF heavy THEN MaxWaitHeavy ELSE MaxWaitLight
    IN Len(migration_queue) >= min_batch \/ since_flush >= max_wait

\* Insert is at its periodic check, about to evaluate should_flush (line 191).
AtFlushCheck == fgpc = "ins_lock" /\ mutex = "free"

\* C28: flush predicate.  should_flush is true exactly when the queue has
\* reached min_batch or max_wait has passed since the last flush, for every
\* value of the workload counters, zero included.
C28_FlushPredicate == AtFlushCheck => (should_flush <=> FlushNow)

\* The wait of the flush predicate for the workload counters i, l
\* (lines 245-249).
MaxWait(i, l) == IF 10 * i > 7 * (i + l) THEN MaxWaitHeavy ELSE MaxWaitLight

\* C29: commit updates last_flush.  When a migration run completes
\* successfully last_flush_time_ is set to the completion time, so right
\* after the run less than max_wait has passed since the last flush.
C29_CommitStampsFlush ==
    [][\A w \in Workers :
           RunEndStep(w) /\ Migrated(w) =>
               since_flush' < MaxWait(inserts', lookups')]_vars

\* A lookup answered by dpgm_ is waiting for mutex_ at the lock_guard of
\* line 120 while another thread holds it.
LookupBlocked == fgpc = "lk_lock" /\ mutex # "free"

\* C30: a lookup that does not enqueue a key never blocks on mutex_.  A
\* lookup of a key already hot enqueues nothing (line 137), so it is never
\* waiting for the mutex.
C30_LookupNeverBlocks ==
    ~(LookupBlocked /\ StatsBefore(fgkey).is_hot)

\* k belongs to the batch of a migration run in progress.
BeingMigrated(k) == \E w \in Workers : wpc[w] # "none" /\ k \in SeqKeys(batch[w])

\* C31: in every reachable state a key whose KeyStats entry has is_hot set
\* is a member of hot_keys_ or belongs to the batch of the migration run in
\* progress.
C31_HotImpliesTracked ==
    \A k \in Keys :
        key_stats[k].present /\ key_stats[k].is_hot => k \in hot_keys \/ BeingMigrated(k)

NoDuplicates(queue) ==
    \A i \in 1..Len(queue) : \A j \in 1..Len(queue) : i # j => queue[i] # queue[j]

\* C32: migration_queue_ never contains the same key twice, and a detector
\* step for a key that is already queued leaves the queue unchanged.
C32_QueueDeduplicated ==
    [][/\ NoDuplicates(migration_queue')
       /\ \A k \in Keys :
              DetectStep(k) /\ k \in SeqToSet(migration_queue)
                  => migration_queue' = migration_queue]_vars

\* A lookup is in its critical section about to mark hot, again, a key that
\* is still queued: its KeyStats entry was aged out in between.
C32_Witness ==
    /\ fgpc = "lk_lock"
    /\ mutex = "free"
    /\ fgkey \in SeqToSet(migration_queue)
    /\ BecomesHot(RecordAccess(StatsBefore(fgkey)))

\* C33: Build loads every entry into dpgm_ and pre-warms lipp_ with exactly
\* s = min(n, 100000) entries from the index range [n/2 - s/2, n/2 - s/2 + s),
\* which lies within [0, n) with no unsigned underflow; an empty input leaves
\* lipp_ untouched, and an input of at most 100,000 entries is resident in
\* both tiers after Build.
C33_BuildSample ==
    /\ last.op = "sample" =>
           /\ last.val = Min(last.key, SampleCap)
           /\ last.hi = (last.key \div 2) - (last.val \div 2)
           /\ 0 <= last.hi
           /\ last.hi + last.val <= last.key
    /\ fgpc # "new" => dpgm = logical /\ lipp = logical

\* The sample of an input larger than the cap, after a Build of two entries.
C33_Witness ==
    /\ last.op = "sample"
    /\ last.key > SampleCap
    /\ last.val = SampleCap
    /\ last.hi > 0
    /\ \A k \in Keys : InDpgm(k) /\ InLipp(k)

\* The step that ends a controller tick: update_hot_keys, after which the
\* thread sleeps (lines 44-45).
TickEndStep == cpc = "c_update" /\ cpc' = "c_loop"

\* C34: immediately after every controller tick hot_keys_ is exactly the set
\* of keys in migration_queue_: the keys added by completed migration runs
\* are removed, the queued keys are added.
C34_TickRebuildsHotSet ==
    [][TickEndStep => hot_keys' = SeqToSet(migration_queue')]_vars

\* A tick has just ended that removed a migrated key from hot_keys_.
C34_Witness ==
    /\ cpc = "c_loop"
    /\ sleep_left = SleepMs
    /\ migration_queue = <<>>
    /\ hot_keys = {}
    /\ \E k \in Keys : InLipp(k) /\ InDpgm(k) /\ key_stats[k].is_hot

\* C35: the set of keys resident in dpgm_ never shrinks after Build: no
\* Insert, migration run, rollback or controller tick removes a key from it.
C35_DpgmNeverShrinks ==
    [][fgpc # "new" => \A k \in Keys : InDpgm(k) => dpgm'[k] # NOT_FOUND]_vars

\* A migration run is at its end, its batch marked hot and resident in both
\* indexes.
C35_Witness ==
    \E w \in Workers :
        Migrated(w) /\ \A k \in SeqKeys(batch[w]) : InDpgm(k) /\ InLipp(k)

\* The KeyStats entry of k exists with is_hot set.
MarkedHot(k) == key_stats[k].present /\ key_stats[k].is_hot

\* C36: while the KeyStats entry of a key exists with is_hot set no lookup
\* enqueues the key again, also when it was dropped from a batch or belonged
\* to a failed bulk load: it enters the queue only when its entry is not
\* marked hot, and until then every Insert of it is routed to lipp_.
C36_HotKeyNotRequeued ==
    [][\A k \in Keys :
           /\ MarkedHot(k) /\ DetectStep(k) => migration_queue' = migration_queue
           /\ k \notin SeqToSet(migration_queue) /\ k \in SeqToSet(migration_queue')
                  => ~MarkedHot(k)
           /\ MarkedHot(k) => ~RoutedToDpgm(k)]_vars

\* The bulk load of a run has thrown; its key, still marked hot, has been
\* looked up a third time and is not queued.
C36_Witness ==
    \E w \in Workers :
        /\ Loaded(w)
        /\ migration_queue = <<>>
        /\ fgpc = "idle"
        /\ \A k \in SeqKeys(batch[w]) :
               ~InLipp(k) /\ MarkedHot(k) /\ key_stats[k].access_count >= HotTotal

C38_RunPreservesEntries ==
    (fgpc = "idle" /\ ~migration_in_progress /\ \A w \in Workers : wpc[w] = "none")
        => \A k \in Keys : logical[k] # NOT_FOUND => FlushFound(k) = logical[k]

\* C39 (full-flush variants): ExtractDPGMData terminates, so every started
\* migration run eventually clears migration_in_progress.
C39_ExtractionTerminates == migration_in_progress ~> ~migration_in_progress

\* C40 (flush-threshold variant, async_flush): destruction always
\* terminates. Once the destructor has set _stop_flag, the flusher thread
\* eventually exits and join returns.
C40_DestructionTerminates == stop_worker ~> (cpc = "f_exited" /\ fgpc = "destroyed")

\* The sweep from the constructed index passes through the states the
\* shortened sweep starts in.
SweepPassesStarts ==
    fgpc = "idle" /\ wpc[1] = "m_check" /\ SweepTurn >= SweepLen /\ lookups % 2 = 0
        => SweptState(lookups \div 2)

====
